---------------------------- MODULE Spec2Model ----------------------------
(***************************************************************************)
(* Model of the translation API (src/src/main.py): the POST /translate/    *)
(* handler translate_text, its helpers fetch_latest_id and save_to_s3, and *)
(* the S3 bucket they share.  Each request is handled by a worker of the   *)
(* hosting runtime; pc[p] is the worker's position in translate_text:      *)
(*   idle   no request                                                     *)
(*   list   lines 97-119 passed, before list_objects_v2 (line 63)          *)
(*   get    before get_object (line 68)                                    *)
(*   build  latest_id known, before translation_info is built (line 125)   *)
(*   put    before save_to_s3 (line 138)                                   *)
(*   done   the response is ready                                          *)
(* and, for the GET /translations/ handler get_translations,               *)
(*   listed the response of get_translations is ready                      *)
(* The language detector, the translation provider, the wall clock and the *)
(* S3 service are the environment: every outcome they can produce is drawn *)
(* nondeterministically.  An S3 call that raises has had no effect.        *)
(***************************************************************************)
EXTENDS Integers, Sequences, FiniteSets, TLC

(***************************************************************************)
(* Bounds of the model.                                                    *)
(***************************************************************************)
\* Workers of the hosting runtime that can handle requests at the same time.
NumProcs == 2
\* Requests received in a run of Spec (overlapping requests allowed).
MaxRequests == 3
\* Requests received in a run of SeqSpec (one request at a time).
MaxSeqRequests == 4
\* Last instant of the wall clock.
MaxTime == 2
\* Clock instants per second (a second has 10^6 microseconds; scaled down).
TicksPerSecond == 2
\* Keys returned by one list_objects_v2 call (1000 in S3; scaled down).
MaxKeys == 2

Procs == 1..NumProcs

(***************************************************************************)
(* Strings whose characters matter (language codes) are sequences of       *)
(* one-character strings; the request text and the translated text are     *)
(* only tested for emptiness and equality and stay opaque.                 *)
(***************************************************************************)
de == <<"d", "e">>
DE == <<"D", "E">>
en == <<"e", "n">>
EN == <<"E", "N">>
qq == <<"q", "q">>
zhCN == <<"z", "h", "-", "C", "N">>
deutsch == <<"d", "e", "u", "t", "s", "c", "h">>

\* str.lower() on one character.
LowerChar(c) ==
    CASE c = "D" -> "d"
      [] c = "E" -> "e"
      [] c = "C" -> "c"
      [] c = "N" -> "n"
      [] OTHER -> c

\* str.lower().
lower(s) == [i \in DOMAIN s |-> LowerChar(s[i])]

\* langs_dict.values(): the provider's supported language codes.
langs_dict_values == <<de, en, zhCN>>

\* Optional[str]: <<>> is None, <<s>> is the string s.
None == <<>>
Some(s) == <<s>>

\* Python truthiness of an Optional[str]: None and "" are falsy.
Truthy(opt) == opt # None /\ opt[1] # <<>>

\* The request bodies drawn for TranslationRequest: every input_lang case with
\* a supported target, each kind of target, and the empty text with a supported
\* and with an unsupported target.
Req(text, target, input) == [text |-> text, target_lang |-> target, input_lang |-> input]

TranslationRequest ==
    {Req("Hello world", DE, i) :
        i \in {None, Some(<<>>), Some(en), Some(EN), Some(deutsch)}}
    \cup {Req("Hello world", zhCN, None), Req("Hello world", qq, None)}
    \cup {Req("", DE, None), Req("", qq, None), Req("", qq, Some(en))}

\* The request body drawn when requests overlap: overlapping requests meet in
\* the bucket and at the clock only, through the ids and the keys of their
\* records, which no field of the request reaches.
OverlappingRequests == {Req("Hello world", DE, None)}

NoRequest == [text |-> "", target_lang |-> <<>>, input_lang |-> None]

\* The queries drawn for GET /translations/, with the state of the S3 service
\* while the request is handled (s3: what a list_objects_v2 call would get).
\* No response carries a next_page, so no request has a cursor to send.
Queries ==
    {[limit |-> l, cursor |-> None, s3 |-> o] :
        l \in {None, Some(1)}, o \in {"ok", "ClientError"}}

NoQuery == [limit |-> None, cursor |-> None, s3 |-> "no request"]

\* No JSON body.
NoContent == <<>>

(***************************************************************************)
(* Outcomes of the collaborators.                                          *)
(***************************************************************************)
\* langdetect.detect: raises LangDetectException or returns a code.
DetectOutcomes ==
    {[exc |-> "LangDetectException", value |-> <<>>],
     [exc |-> "none", value |-> <<>>],
     [exc |-> "none", value |-> deutsch],
     [exc |-> "none", value |-> en]}

\* GoogleTranslator(...).translate: raises or returns the translated text.
TranslateOutcomes(text) ==
    {[exc |-> e, value |-> ""] :
        e \in {"ConnectionError", "TimeoutError", "RuntimeError", "Exception"}}
    \cup {[exc |-> "none", value |-> v] : v \in {text, "Hallo Welt"}}

\* An S3 call either succeeds or raises botocore's ClientError.
S3Outcomes == {"ok", "ClientError"}

\* What a request has got from the collaborators it called so far.
NoDetect == [exc |-> "not called", value |-> <<>>]
NoTranslate == [exc |-> "not called", value |-> ""]
NoOutcome == [detect |-> NoDetect, translate |-> NoTranslate, s3 |-> "not called"]

(***************************************************************************)
(* datetime.now().isoformat(): seconds, then the sub-second part, which is *)
(* left out when it is zero.  Strings compare lexicographically.           *)
(***************************************************************************)
isoformat(t) ==
    IF t % TicksPerSecond = 0
    THEN <<t \div TicksPerSecond>>
    ELSE <<t \div TicksPerSecond, t % TicksPerSecond>>

\* a < b for two keys, in the lexicographic order S3 lists keys in.
KeyLess(a, b) ==
    \E i \in 1..(Len(a) + 1) :
        /\ i <= Len(b)
        /\ \A j \in 1..(i - 1) : a[j] = b[j]
        /\ (i = Len(a) + 1 \/ (i <= Len(a) /\ a[i] < b[i]))

(***************************************************************************)
(* json.dumps / json.loads of a translation_info dict: the document is the *)
(* list of members in insertion order, each value tagged by its JSON type. *)
(***************************************************************************)
dumps(d) ==
    << <<"id", <<"number", d.id>> >>,
       <<"original_text", <<"string", d.original_text>> >>,
       <<"original_lang", <<"string", d.original_lang>> >>,
       <<"translated_text", <<"string", d.translated_text>> >>,
       <<"output_lang", <<"string", d.output_lang>> >>,
       <<"timestamp", <<"string", d.timestamp>> >>,
       <<"mismatch_detected",
         <<"literal", IF d.mismatch_detected THEN "true" ELSE "false">> >> >>

JsonValue(v) == IF v[1] = "literal" THEN v[2] = "true" ELSE v[2]

loads(s) ==
    [k \in {s[i][1] : i \in DOMAIN s} |->
        JsonValue(s[CHOOSE i \in DOMAIN s : s[i][1] = k][2])]

(***************************************************************************)
(* The S3 bucket: one object per key, a put replaces the object of its key.*)
(***************************************************************************)
\* s3_client.put_object(Bucket, Body, Key) at S3 time t.
put_object(bucket, body, key, t) ==
    [k \in DOMAIN bucket \cup {key} |->
        IF k = key
        THEN [Body |-> body, LastModified |-> t \div TicksPerSecond]
        ELSE bucket[k]]

\* The keys of a set in ascending lexicographic order.
RECURSIVE KeysInOrder(_)
KeysInOrder(keys) ==
    IF keys = {} THEN <<>>
    ELSE LET first == CHOOSE k \in keys : \A o \in keys \ {k} : KeyLess(k, o)
         IN  <<first>> \o KeysInOrder(keys \ {first})

\* s3_client.list_objects_v2(Bucket)['Contents']: the first MaxKeys keys in
\* key order, with their last-modified times.
list_objects_v2(bucket) ==
    LET all == KeysInOrder(DOMAIN bucket)
        n == IF Len(all) < MaxKeys THEN Len(all) ELSE MaxKeys
    IN  [i \in 1..n |-> [Key |-> all[i], LastModified |-> bucket[all[i]].LastModified]]

\* Insert obj into a list sorted by LastModified, after every object that is
\* not later than it (Python's sorted is stable).
InsertByLastModified(sortedObjs, obj) ==
    LET n == Cardinality({i \in DOMAIN sortedObjs :
                             sortedObjs[i].LastModified <= obj.LastModified})
    IN  SubSeq(sortedObjs, 1, n) \o <<obj>> \o SubSeq(sortedObjs, n + 1, Len(sortedObjs))

\* sorted(objects['Contents'], key=last_modified)
RECURSIVE sorted_by_last_modified(_)
sorted_by_last_modified(contents) ==
    IF contents = <<>> THEN <<>>
    ELSE InsertByLastModified(
            sorted_by_last_modified(SubSeq(contents, 1, Len(contents) - 1)),
            contents[Len(contents)])

\* latest_key = [obj['Key'] for obj in sorted(...)][-1]
latest_key_of(contents) ==
    LET s == sorted_by_last_modified(contents) IN s[Len(s)].Key

\* The objects of a listing as they are when listed: each entry of Contents
\* with the body it stands for (the listing itself carries its ETag).
objects_listed(bucket) ==
    LET contents == list_objects_v2(bucket)
    IN  [i \in DOMAIN contents |->
            [Key |-> contents[i].Key,
             LastModified |-> contents[i].LastModified,
             Body |-> bucket[contents[i].Key].Body]]

\* fetch_latest_id on a bucket both of whose S3 calls succeed.
fetch_latest_id(bucket) ==
    LET contents == list_objects_v2(bucket)
    IN  IF contents = <<>> THEN 0
        ELSE loads(bucket[latest_key_of(contents)].Body).id

(***************************************************************************)
(* Responses.                                                              *)
(***************************************************************************)
HTTPException(status, detail) == [status_code |-> status, detail |-> detail]

InvalidLanguageCode(target) ==
    HTTPException(422, <<"Invalid language code: ", target,
                         ". Please check the list of supported languages.">>)
EmptyInput == HTTPException(422, <<"Empty input provided. Please try again.">>)
LanguageDetectionFailed ==
    HTTPException(422, <<"Input language could not be detected. Please try again.">>)
TranslationServiceUnavailable ==
    HTTPException(503, <<"Connection to translation service failed">>)
TranslationServiceTimeout == HTTPException(504, <<"Translation request timed out">>)
TranslationNotRecognized ==
    HTTPException(422, <<"Translation error. Inputted text was not recognised. Please try again.">>)
\* handle_runtime_errors
handle_runtime_errors == HTTPException(500, <<"An unexpected error occurred">>)
\* An exception no handler is registered for: the framework's bare 500.
UnhandledException == HTTPException(500, <<"Internal Server Error">>)
\* status_code=201 with translation_info as the body.
Created == HTTPException(201, <<>>)
\* The default status code of a route, with content as the body.
OK == HTTPException(200, <<>>)
NoResponse == HTTPException(0, <<>>)

NoInfo ==
    [id |-> 0, original_text |-> "", original_lang |-> <<>>, translated_text |-> "",
     output_lang |-> <<>>, timestamp |-> <<>>, mismatch_detected |-> FALSE]

(***************************************************************************)
(* State.                                                                  *)
(***************************************************************************)
VARIABLES
    store,             \* the bucket: key -> [Body, LastModified]
    now,               \* the clock
    nreq,              \* requests received so far
    assigned,          \* ids of the 201 responses, in the order they were sent
    pc,                \* each worker's position in translate_text
    request,           \* the request a worker handles
    detected_lang,     \* translate_text's local detected_lang
    translated_text,   \* translate_text's local translated_text
    latest_key,        \* fetch_latest_id's local latest_key
    latest_id,         \* translate_text's local latest_id
    translation_info,  \* translate_text's local translation_info
    response,          \* the response of the request
    calls,             \* the collaborator calls the request has made, in order
    outcome,           \* what the collaborators called answered the request
    query,             \* the query of a GET /translations/ request
    content,           \* the JSON body get_translations answers with
    objects            \* fetch_latest_id's local objects: the objects listed

vars == <<store, now, nreq, assigned, pc, request, detected_lang, translated_text,
          latest_key, latest_id, translation_info, response, calls, outcome,
          query, content, objects>>

locals == <<detected_lang, translated_text, latest_key, latest_id, translation_info>>

listing == <<query, content>>

Init ==
    /\ store = <<>>
    /\ now = 0
    /\ nreq = 0
    /\ assigned = <<>>
    /\ pc = [p \in Procs |-> "idle"]
    /\ request = [p \in Procs |-> NoRequest]
    /\ detected_lang = [p \in Procs |-> <<>>]
    /\ translated_text = [p \in Procs |-> ""]
    /\ latest_key = [p \in Procs |-> <<>>]
    /\ latest_id = [p \in Procs |-> 0]
    /\ translation_info = [p \in Procs |-> NoInfo]
    /\ response = [p \in Procs |-> NoResponse]
    /\ calls = [p \in Procs |-> <<>>]
    /\ outcome = [p \in Procs |-> NoOutcome]
    /\ query = [p \in Procs |-> NoQuery]
    /\ content = [p \in Procs |-> NoContent]
    /\ objects = [p \in Procs |-> <<>>]

\* The request ends with response r.
Finish(p, r) ==
    /\ pc' = [pc EXCEPT ![p] = "done"]
    /\ response' = [response EXCEPT ![p] = r]

\* Variant of TargetSupported: the requested code is compared as given.
TargetSupportedCaseSensitive(target) ==
    \E i \in DOMAIN langs_dict_values : target = lower(langs_dict_values[i])

\* The target_lang test of line 97.
TargetSupported(target) ==
    \E i \in DOMAIN langs_dict_values : lower(target) = lower(langs_dict_values[i])

\* What lines 97-119 leave: the error response if a check failed (NoResponse
\* if none did), the locals set so far and the collaborator calls made.
Checked(r, detected, translated, made) ==
    [response |-> r, detected_lang |-> detected, translated_text |-> translated,
     calls |-> made]

\* Variant of translate_checks: the empty-text check comes first.
translate_checks_text_first(req, d, tr) ==
    IF req.text = ""
    THEN Checked(EmptyInput, <<>>, "", <<>>)
    ELSE IF ~TargetSupported(req.target_lang)
    THEN Checked(InvalidLanguageCode(req.target_lang), <<>>, "", <<>>)
    ELSE IF d.exc = "LangDetectException" \/ d.value = <<>> \/ Len(d.value) # 2
    THEN Checked(LanguageDetectionFailed, <<>>, "", <<"detect">>)
    ELSE IF tr.exc = "ConnectionError"
    THEN Checked(TranslationServiceUnavailable, d.value, "", <<"detect", "translate">>)
    ELSE IF tr.exc = "TimeoutError"
    THEN Checked(TranslationServiceTimeout, d.value, "", <<"detect", "translate">>)
    ELSE IF tr.exc = "RuntimeError"
    THEN Checked(handle_runtime_errors, d.value, "", <<"detect", "translate">>)
    ELSE IF tr.exc = "Exception"
    THEN Checked(UnhandledException, d.value, "", <<"detect", "translate">>)
    ELSE IF req.text = tr.value
    THEN Checked(TranslationNotRecognized, d.value, tr.value, <<"detect", "translate">>)
    ELSE Checked(NoResponse, d.value, tr.value, <<"detect", "translate">>)

\* Variant of translate_checks: a text that comes back unchanged is accepted.
translate_checks_unchanged_accepted(req, d, tr) ==
    IF ~TargetSupported(req.target_lang)
    THEN Checked(InvalidLanguageCode(req.target_lang), <<>>, "", <<>>)
    ELSE IF req.text = ""
    THEN Checked(EmptyInput, <<>>, "", <<>>)
    ELSE IF d.exc = "LangDetectException" \/ d.value = <<>> \/ Len(d.value) # 2
    THEN Checked(LanguageDetectionFailed, <<>>, "", <<"detect">>)
    ELSE IF tr.exc = "ConnectionError"
    THEN Checked(TranslationServiceUnavailable, d.value, "", <<"detect", "translate">>)
    ELSE IF tr.exc = "TimeoutError"
    THEN Checked(TranslationServiceTimeout, d.value, "", <<"detect", "translate">>)
    ELSE IF tr.exc = "RuntimeError"
    THEN Checked(handle_runtime_errors, d.value, "", <<"detect", "translate">>)
    ELSE IF tr.exc = "Exception"
    THEN Checked(UnhandledException, d.value, "", <<"detect", "translate">>)
    ELSE Checked(NoResponse, d.value, tr.value, <<"detect", "translate">>)

\* Variant of translate_checks: the detected code is only tested for emptiness.
translate_checks_any_length(req, d, tr) ==
    IF ~TargetSupported(req.target_lang)
    THEN Checked(InvalidLanguageCode(req.target_lang), <<>>, "", <<>>)
    ELSE IF req.text = ""
    THEN Checked(EmptyInput, <<>>, "", <<>>)
    ELSE IF d.exc = "LangDetectException" \/ d.value = <<>>
    THEN Checked(LanguageDetectionFailed, <<>>, "", <<"detect">>)
    ELSE IF tr.exc = "ConnectionError"
    THEN Checked(TranslationServiceUnavailable, d.value, "", <<"detect", "translate">>)
    ELSE IF tr.exc = "TimeoutError"
    THEN Checked(TranslationServiceTimeout, d.value, "", <<"detect", "translate">>)
    ELSE IF tr.exc = "RuntimeError"
    THEN Checked(handle_runtime_errors, d.value, "", <<"detect", "translate">>)
    ELSE IF tr.exc = "Exception"
    THEN Checked(UnhandledException, d.value, "", <<"detect", "translate">>)
    ELSE IF req.text = tr.value
    THEN Checked(TranslationNotRecognized, d.value, tr.value, <<"detect", "translate">>)
    ELSE Checked(NoResponse, d.value, tr.value, <<"detect", "translate">>)

\* Lines 97-119 of translate_text on request req, when the detector answers d
\* and the provider answers tr: the target_lang check, the empty-text check,
\* the detection, the translation, the check that the text changed.  A failing
\* check raises, so nothing after it runs.
translate_checks(req, d, tr) ==
    IF ~TargetSupported(req.target_lang)
    THEN Checked(InvalidLanguageCode(req.target_lang), <<>>, "", <<>>)
    ELSE IF req.text = ""
    THEN Checked(EmptyInput, <<>>, "", <<>>)
    ELSE IF d.exc = "LangDetectException" \/ d.value = <<>> \/ Len(d.value) # 2
    THEN Checked(LanguageDetectionFailed, <<>>, "", <<"detect">>)
    ELSE IF tr.exc = "ConnectionError"
    THEN Checked(TranslationServiceUnavailable, d.value, "", <<"detect", "translate">>)
    ELSE IF tr.exc = "TimeoutError"
    THEN Checked(TranslationServiceTimeout, d.value, "", <<"detect", "translate">>)
    ELSE IF tr.exc = "RuntimeError"
    THEN Checked(handle_runtime_errors, d.value, "", <<"detect", "translate">>)
    ELSE IF tr.exc = "Exception"
    THEN Checked(UnhandledException, d.value, "", <<"detect", "translate">>)
    ELSE IF req.text = tr.value
    THEN Checked(TranslationNotRecognized, d.value, tr.value, <<"detect", "translate">>)
    ELSE Checked(NoResponse, d.value, tr.value, <<"detect", "translate">>)

\* A worker takes a request, as long as fewer than max were received, and runs
\* lines 97-119, which touch nothing that requests share: the request ends
\* with the error of the first failing check or goes on to the id lookup.
ReceiveUpTo(p, max, requests) ==
    /\ pc[p] = "idle"
    /\ nreq < max
    /\ nreq' = nreq + 1
    /\ \E r \in requests, d \in DetectOutcomes :
        \E tr \in TranslateOutcomes(r.text) :
            LET o == translate_checks(r, d, tr)
            IN  /\ request' = [request EXCEPT ![p] = r]
                /\ detected_lang' = [detected_lang EXCEPT ![p] = o.detected_lang]
                /\ translated_text' = [translated_text EXCEPT ![p] = o.translated_text]
                /\ calls' = [calls EXCEPT ![p] = o.calls]
                /\ outcome' = [outcome EXCEPT ![p] =
                      [detect |-> IF Len(o.calls) >= 1 THEN d ELSE NoDetect,
                       translate |-> IF Len(o.calls) >= 2 THEN tr ELSE NoTranslate,
                       s3 |-> "not called"]]
                /\ response' = [response EXCEPT ![p] = o.response]
                /\ pc' = [pc EXCEPT ![p] = IF o.response = NoResponse THEN "list" ELSE "done"]
    /\ UNCHANGED <<store, now, assigned, latest_key, latest_id, translation_info,
                   listing, objects>>

\* Requests may overlap.
Receive(p) == ReceiveUpTo(p, MaxRequests, OverlappingRequests)

\* One request at a time: a request is received only when no other is handled.
SeqReceive(p) ==
    /\ \A q \in Procs : pc[q] = "idle"
    /\ ReceiveUpTo(p, MaxSeqRequests, TranslationRequest)

\* Variant of ListObjects: a failed listing counts as an empty one.
ListObjectsFailureAsEmpty(p) ==
    /\ pc[p] = "list"
    /\ calls' = [calls EXCEPT ![p] = Append(@, "list_objects_v2")]
    /\ \E o \in S3Outcomes :
        /\ outcome' = [outcome EXCEPT ![p].s3 = o]
        /\ objects' = [objects EXCEPT ![p] =
                          IF o = "ClientError" THEN <<>> ELSE objects_listed(store)]
        /\ LET contents == IF o = "ClientError" THEN <<>> ELSE list_objects_v2(store)
           IN  IF contents = <<>>
               THEN /\ latest_id' = [latest_id EXCEPT ![p] = 0]
                    /\ pc' = [pc EXCEPT ![p] = "build"]
                    /\ UNCHANGED <<latest_key, response>>
               ELSE /\ latest_key' = [latest_key EXCEPT ![p] = latest_key_of(contents)]
                    /\ pc' = [pc EXCEPT ![p] = "get"]
                    /\ UNCHANGED <<latest_id, response>>
    /\ UNCHANGED <<store, now, nreq, assigned, request, detected_lang,
                   translated_text, translation_info, listing>>

\* Lines 63-67: fetch_latest_id lists the bucket and picks the latest key.
ListObjects(p) ==
    /\ pc[p] = "list"
    /\ calls' = [calls EXCEPT ![p] = Append(@, "list_objects_v2")]
    /\ \E o \in S3Outcomes :
        /\ outcome' = [outcome EXCEPT ![p].s3 = o]
        /\ objects' = [objects EXCEPT ![p] =
                          IF o = "ClientError" THEN <<>> ELSE objects_listed(store)]
        /\ IF o = "ClientError"
           THEN Finish(p, UnhandledException) /\ UNCHANGED <<latest_key, latest_id>>
           ELSE LET contents == list_objects_v2(store)
                IN  IF contents = <<>>
                    THEN /\ latest_id' = [latest_id EXCEPT ![p] = 0]
                         /\ pc' = [pc EXCEPT ![p] = "build"]
                         /\ UNCHANGED <<latest_key, response>>
                    ELSE /\ latest_key' = [latest_key EXCEPT ![p] = latest_key_of(contents)]
                         /\ pc' = [pc EXCEPT ![p] = "get"]
                         /\ UNCHANGED <<latest_id, response>>
    /\ UNCHANGED <<store, now, nreq, assigned, request, detected_lang,
                   translated_text, translation_info, listing>>

\* Lines 68-72: fetch_latest_id reads the id of the object under latest_key.
GetObject(p) ==
    /\ pc[p] = "get"
    /\ calls' = [calls EXCEPT ![p] = Append(@, "get_object")]
    /\ objects' = [objects EXCEPT ![p] = <<>>]
    /\ \E o \in S3Outcomes :
        /\ outcome' = [outcome EXCEPT ![p].s3 = o]
        /\ IF o = "ClientError"
           THEN Finish(p, UnhandledException) /\ UNCHANGED latest_id
           ELSE /\ latest_id' = [latest_id EXCEPT ![p] = loads(store[latest_key[p]].Body).id]
                /\ pc' = [pc EXCEPT ![p] = "build"]
                /\ UNCHANGED response
    /\ UNCHANGED <<store, now, nreq, assigned, request, detected_lang,
                   translated_text, latest_key, translation_info, listing>>

\* The clock read at t: time does not run backwards and does not pass MaxTime.
ClockReads(t) == t \in {now, now + 1} /\ t <= MaxTime

\* Variant of BuildInfo: the mismatch test ignores case.
BuildInfoIgnoringCase(req, detected, translated, id, t) ==
    [id |-> id + 1,
     original_text |-> req.text,
     original_lang |-> IF Truthy(req.input_lang) THEN req.input_lang[1] ELSE detected,
     translated_text |-> translated,
     output_lang |-> lower(req.target_lang),
     timestamp |-> isoformat(t),
     mismatch_detected |->
        Truthy(req.input_lang) /\ lower(req.input_lang[1]) # lower(detected)]

\* Lines 121 and 125-136: the record of the translation.
BuildInfo(req, detected, translated, id, t) ==
    [id |-> id + 1,
     original_text |-> req.text,
     original_lang |-> IF Truthy(req.input_lang) THEN req.input_lang[1] ELSE detected,
     translated_text |-> translated,
     output_lang |-> lower(req.target_lang),
     timestamp |-> isoformat(t),
     mismatch_detected |-> Truthy(req.input_lang) /\ req.input_lang[1] # detected]

Build(p) ==
    /\ pc[p] = "build"
    /\ \E t \in 0..MaxTime :
        /\ ClockReads(t)
        /\ now' = t
        /\ translation_info' = [translation_info EXCEPT ![p] =
              BuildInfo(request[p], detected_lang[p], translated_text[p], latest_id[p], t)]
    /\ pc' = [pc EXCEPT ![p] = "put"]
    /\ UNCHANGED <<store, nreq, assigned, request, detected_lang, translated_text,
                   latest_key, latest_id, response, calls, outcome, listing,
                   objects>>

\* Variant of save_to_s3: the key carries a prefix before the timestamp.
save_to_s3_prefixed(bucket, data, key, t) ==
    put_object(bucket, dumps(data), <<-1>> \o key, t)

\* save_to_s3(data, bucket_name, key, s3_client) at S3 time t.
save_to_s3(bucket, data, key, t) == put_object(bucket, dumps(data), key, t)

\* Variant of Put: the id is looked up again in the step that writes.
PutWithFreshId(p) ==
    /\ pc[p] = "put"
    /\ calls' = [calls EXCEPT ![p] = Append(@, "put_object")]
    /\ \E o \in S3Outcomes :
        /\ outcome' = [outcome EXCEPT ![p].s3 = o]
        /\ IF o = "ClientError"
           THEN Finish(p, UnhandledException) /\ UNCHANGED <<store, now, translation_info>>
           ELSE \E t \in 0..MaxTime :
                   /\ ClockReads(t)
                   /\ now' = t
                   /\ translation_info' = [translation_info EXCEPT
                                              ![p].id = fetch_latest_id(store) + 1]
                   /\ store' = save_to_s3(store, translation_info'[p],
                                          translation_info[p].timestamp, t)
                   /\ Finish(p, Created)
    /\ UNCHANGED <<nreq, assigned, request, detected_lang, translated_text,
                   latest_key, latest_id, listing, objects>>

\* Variant of Put: the object is written before the failure is raised.
PutBeforeFailing(p) ==
    /\ pc[p] = "put"
    /\ calls' = [calls EXCEPT ![p] = Append(@, "put_object")]
    /\ \E o \in S3Outcomes, t \in 0..MaxTime :
        /\ outcome' = [outcome EXCEPT ![p].s3 = o]
        /\ ClockReads(t)
        /\ now' = t
        /\ store' = save_to_s3(store, translation_info[p],
                               translation_info[p].timestamp, t)
        /\ Finish(p, IF o = "ClientError" THEN UnhandledException ELSE Created)
    /\ UNCHANGED <<nreq, assigned, request, locals, listing, objects>>

\* Lines 138-140: the record is saved under its timestamp and returned.
Put(p) ==
    /\ pc[p] = "put"
    /\ calls' = [calls EXCEPT ![p] = Append(@, "put_object")]
    /\ \E o \in S3Outcomes :
        /\ outcome' = [outcome EXCEPT ![p].s3 = o]
        /\ IF o = "ClientError"
           THEN Finish(p, UnhandledException) /\ UNCHANGED <<store, now>>
           ELSE \E t \in 0..MaxTime :
                   /\ ClockReads(t)
                   /\ now' = t
                   /\ store' = save_to_s3(store, translation_info[p],
                                          translation_info[p].timestamp, t)
                   /\ Finish(p, Created)
    /\ UNCHANGED <<nreq, assigned, request, locals, listing, objects>>

\* The response is sent and the worker is free again.
Respond(p) ==
    /\ pc[p] \in {"done", "listed"}
    /\ assigned' = IF response[p].status_code = 201
                   THEN Append(assigned, translation_info[p].id)
                   ELSE assigned
    /\ pc' = [pc EXCEPT ![p] = "idle"]
    /\ request' = [request EXCEPT ![p] = NoRequest]
    /\ detected_lang' = [detected_lang EXCEPT ![p] = <<>>]
    /\ translated_text' = [translated_text EXCEPT ![p] = ""]
    /\ latest_key' = [latest_key EXCEPT ![p] = <<>>]
    /\ latest_id' = [latest_id EXCEPT ![p] = 0]
    /\ translation_info' = [translation_info EXCEPT ![p] = NoInfo]
    /\ response' = [response EXCEPT ![p] = NoResponse]
    /\ calls' = [calls EXCEPT ![p] = <<>>]
    /\ outcome' = [outcome EXCEPT ![p] = NoOutcome]
    /\ query' = [query EXCEPT ![p] = NoQuery]
    /\ content' = [content EXCEPT ![p] = NoContent]
    /\ objects' = [objects EXCEPT ![p] = <<>>]
    /\ UNCHANGED <<store, now, nreq>>

\* Lines 156-159: get_translations takes no parameter, calls nothing and
\* answers the same body whatever the bucket holds.
get_translations == [translations |-> <<>>]

\* A worker takes a GET /translations/ request, as long as no other request is
\* handled: the route has no status_code, so the answer is a 200.  The query
\* of the request and the state of the S3 service do not reach the handler.
GetTranslations(p) ==
    /\ \A q \in Procs : pc[q] = "idle"
    /\ nreq < MaxSeqRequests
    /\ nreq' = nreq + 1
    /\ \E q \in Queries : query' = [query EXCEPT ![p] = q]
    /\ content' = [content EXCEPT ![p] = get_translations]
    /\ pc' = [pc EXCEPT ![p] = "listed"]
    /\ response' = [response EXCEPT ![p] = OK]
    /\ UNCHANGED <<store, now, assigned, request, locals, calls, outcome, objects>>

Next ==
    \E p \in Procs :
        \/ Receive(p)
        \/ ListObjects(p)
        \/ GetObject(p)
        \/ Build(p)
        \/ Put(p)
        \/ Respond(p)

\* Requests may overlap.
Spec == Init /\ [][Next]_vars

SeqNext ==
    \E p \in Procs :
        \/ SeqReceive(p)
        \/ ListObjects(p)
        \/ GetObject(p)
        \/ Build(p)
        \/ Put(p)
        \/ Respond(p)

\* Requests are executed one after another.
SeqSpec == Init /\ [][SeqNext]_vars

ListNext ==
    \E p \in Procs :
        \/ SeqReceive(p)
        \/ GetTranslations(p)
        \/ ListObjects(p)
        \/ GetObject(p)
        \/ Build(p)
        \/ Put(p)
        \/ Respond(p)

\* POST /translate/ and GET /translations/ requests, one after another.
ListSpec == Init /\ [][ListNext]_vars

(***************************************************************************)
(* Notions the properties are stated with.                                 *)
(***************************************************************************)
\* The records the bucket holds.
StoredRecords == {loads(store[k].Body) : k \in DOMAIN store}

\* The greatest id over all stored records, 0 for an empty bucket.
MaxStoredId ==
    IF StoredRecords = {} THEN 0
    ELSE CHOOSE m \in {r.id : r \in StoredRecords} : \A r \in StoredRecords : r.id <= m

\* Worker p has finished a request with status code s.
Answered(p, s) == pc[p] = "done" /\ response[p].status_code = s

\* Worker p's step from st to st2 ends its request with status code s.
Answers(p, s) == pc[p] # "done" /\ pc'[p] = "done" /\ response'[p].status_code = s

ErrorStatuses == {422, 500, 503, 504}

(***************************************************************************)
(* C1.  Requests executed one after another: the id of every 201 response  *)
(* is strictly greater than the id of every earlier 201 response.          *)
(***************************************************************************)
C1_IdsStrictlyIncrease ==
    \A i, j \in DOMAIN assigned : i < j => assigned[i] < assigned[j]

(***************************************************************************)
(* C2.  Requests executed one after another on an initially empty bucket:  *)
(* the k-th 201 response carries id k.                                     *)
(***************************************************************************)
C2_IdsDenseFromOne ==
    \A k \in DOMAIN assigned : assigned[k] = k

(***************************************************************************)
(* C3.  In every reachable state of the bucket fetch_latest_id returns the *)
(* greatest id over all stored records, 0 for an empty bucket.             *)
(***************************************************************************)
C3_LatestIdIsMaximum ==
    fetch_latest_id(store) = MaxStoredId

(***************************************************************************)
(* C4.  A stored object is never lost nor changed: every step keeps every  *)
(* key of the bucket with the body it had.                                 *)
(***************************************************************************)
C4_RecordsImmutable ==
    [][\A k \in DOMAIN store :
          k \in DOMAIN store' /\ store'[k].Body = store[k].Body]_vars

(***************************************************************************)
(* C5.  Overlapping requests can read the same latest id before either     *)
(* writes, and nothing after the lookup looks at the bucket again: two     *)
(* requests answered 201 that read the same latest id carry the same id.   *)
(***************************************************************************)
C5_SameLookupSameId ==
    \A p, q \in Procs :
        (p # q /\ Answered(p, 201) /\ Answered(q, 201) /\ latest_id[p] = latest_id[q])
            => translation_info[p].id = translation_info[q].id

\* Two overlapping requests have both been answered 201 with the same id, and
\* the bucket holds both records.
C5_Witness ==
    \E p, q \in Procs :
        /\ p # q /\ Answered(p, 201) /\ Answered(q, 201)
        /\ latest_id[p] = latest_id[q]
        /\ translation_info[p].id = translation_info[q].id
        /\ translation_info[p].timestamp # translation_info[q].timestamp
        /\ {translation_info[p], translation_info[q]} \subseteq StoredRecords

(***************************************************************************)
(* C6.  The checks run in the order target_lang, text, detection,          *)
(* translation, translated text differs; the response is the error of the  *)
(* first check that fails and no later collaborator is called after it.    *)
(***************************************************************************)
\* a and b are the same code up to the case of their letters.
SameIgnoringCase(a, b) ==
    /\ Len(a) = Len(b)
    /\ \A i \in DOMAIN a :
          \/ a[i] = b[i]
          \/ {a[i], b[i]} \in {{"d", "D"}, {"e", "E"}, {"c", "C"}, {"n", "N"}}

\* The code is one of the provider's supported codes, whatever its case.
IsSupportedCode(code) ==
    \E i \in DOMAIN langs_dict_values : SameIgnoringCase(code, langs_dict_values[i])

C6_FirstFailingCheckDecides ==
    \A p \in Procs :
        pc[p] = "done" =>
            /\ ~IsSupportedCode(request[p].target_lang)
                  => /\ response[p] = InvalidLanguageCode(request[p].target_lang)
                     /\ calls[p] = <<>>
            /\ (IsSupportedCode(request[p].target_lang) /\ request[p].text = "")
                  => /\ response[p] = EmptyInput
                     /\ calls[p] = <<>>
            /\ response[p] \in {InvalidLanguageCode(request[p].target_lang), EmptyInput}
                  => calls[p] = <<>>
            /\ response[p] = LanguageDetectionFailed => calls[p] = <<"detect">>
            /\ response[p] \in {TranslationServiceUnavailable, TranslationServiceTimeout,
                                 handle_runtime_errors, TranslationNotRecognized}
                  => calls[p] = <<"detect", "translate">>
            /\ response[p] = Created
                  => calls[p] \in {<<"detect", "translate", "list_objects_v2", "put_object">>,
                                   <<"detect", "translate", "list_objects_v2",
                                     "get_object", "put_object">>}

\* A request with an unsupported target_lang and an empty text was answered.
C6_Witness ==
    \E p \in Procs :
        /\ pc[p] = "done"
        /\ request[p].text = "" /\ ~IsSupportedCode(request[p].target_lang)
        /\ response[p] = InvalidLanguageCode(request[p].target_lang)

(***************************************************************************)
(* C7.  A step that ends a request with an error response leaves the       *)
(* bucket unchanged, and the bucket changes only in the step that ends a   *)
(* request with 201.                                                       *)
(***************************************************************************)
C7_ErrorsLeaveStoreUnchanged ==
    [][/\ \A p \in Procs :
            (\E s \in ErrorStatuses : Answers(p, s)) => store' = store
       /\ store' # store => \E p \in Procs : pc[p] = "put" /\ Answers(p, 201)]_vars

\* A request failed at its write, after another request had stored a record.
C7_Witness ==
    \E p \in Procs :
        /\ Answered(p, 500)
        /\ calls[p][Len(calls[p])] = "put_object"
        /\ store # <<>>

(***************************************************************************)
(* C8.  The step that answers 201 leaves, under the key that is the        *)
(* record's timestamp, an object whose body is the JSON document of the    *)
(* record returned, with its seven members.                                *)
(***************************************************************************)
RecordFields ==
    {"id", "original_text", "original_lang", "translated_text", "output_lang",
     "timestamp", "mismatch_detected"}

C9_Original ==
    \A p \in Procs :
        Answered(p, 201) =>
            LET supplied == request[p].input_lang # None
            IN  /\ translation_info[p].original_lang =
                      IF supplied THEN request[p].input_lang[1] ELSE detected_lang[p]
                /\ translation_info[p].mismatch_detected
                      <=> (supplied /\ request[p].input_lang[1] # detected_lang[p])

(***************************************************************************)
(* C9, amended.  The same with "supplied" read as "supplied and not the    *)
(* empty string": an empty input_lang counts as none.  The comparison with *)
(* the detected language is case-sensitive.                                *)
(***************************************************************************)
C9_Amended ==
    \A p \in Procs :
        Answered(p, 201) =>
            LET supplied == request[p].input_lang \notin {None, Some(<<>>)}
            IN  /\ translation_info[p].original_lang =
                      IF supplied THEN request[p].input_lang[1] ELSE detected_lang[p]
                /\ translation_info[p].mismatch_detected
                      <=> (supplied /\ request[p].input_lang[1] # detected_lang[p])

\* A request whose input_lang differs from the detected language only in case
\* was answered 201 with mismatch_detected set.
C9_Witness ==
    \E p \in Procs :
        /\ Answered(p, 201)
        /\ request[p].input_lang = Some(EN) /\ detected_lang[p] = en
        /\ translation_info[p].mismatch_detected

(***************************************************************************)
(* C10.  target_lang is validated whatever its case: a request is answered *)
(* with the invalid-language-code error exactly when its target_lang is no *)
(* supported code, and every record returned or stored has as output_lang  *)
(* the lower-cased target_lang, a supported code.                          *)
(***************************************************************************)
IsLowerCase(code) == \A i \in DOMAIN code : code[i] \notin {"D", "E", "C", "N"}

C11_ProviderFailureMapped ==
    \A p \in Procs :
        (pc[p] = "done" /\ outcome[p].translate.exc \notin {"not called", "none"}) =>
            /\ response[p] =
                  CASE outcome[p].translate.exc = "ConnectionError" ->
                          HTTPException(503, <<"Connection to translation service failed">>)
                    [] outcome[p].translate.exc = "TimeoutError" ->
                          HTTPException(504, <<"Translation request timed out">>)
                    [] OTHER ->
                          HTTPException(500, <<"An unexpected error occurred">>)
            /\ response[p].status_code # 201
            /\ translation_info[p] = NoInfo

(***************************************************************************)
(* C12.  When the detector raises, returns an empty value or returns a     *)
(* code whose length is not 2, the request is answered 422 "Input language *)
(* could not be detected. Please try again." and the translation provider  *)
(* is not called; a detector answer of length 2 is not answered that way.  *)
(***************************************************************************)
DetectionFails(d) == d.exc = "LangDetectException" \/ Len(d.value) # 2

C12_DetectionFailureIs422 ==
    \A p \in Procs :
        (pc[p] = "done" /\ outcome[p].detect # NoDetect) =>
            /\ DetectionFails(outcome[p].detect) <=>
                  response[p] = HTTPException(422,
                      <<"Input language could not be detected. Please try again.">>)
            /\ DetectionFails(outcome[p].detect) =>
                  /\ calls[p] = <<"detect">>
                  /\ outcome[p].translate = NoTranslate

\* A request whose text was detected as a code of seven letters was answered
\* with the detection error without a call of the provider.
C12_Witness ==
    \E p \in Procs :
        /\ pc[p] = "done"
        /\ outcome[p].detect = [exc |-> "none", value |-> deutsch]
        /\ response[p] = LanguageDetectionFailed
        /\ calls[p] = <<"detect">>

(***************************************************************************)
(* Notions for GET /translations/.                                         *)
(***************************************************************************)
\* Worker p has the response of a GET /translations/ request ready; the S3
\* service answered, or would have answered, its listing with s3.
Listed(p, s3) == pc[p] = "listed" /\ query[p].s3 = s3

\* The limit of a query: 10 when none is given.
LimitOf(q) == IF q.limit = None THEN 10 ELSE q.limit[1]

\* The items of a body, none if it has no translations member.
ItemsOf(body) == IF "translations" \in DOMAIN body THEN body.translations ELSE <<>>

(***************************************************************************)
(* C13.  The listing is newest first: when the bucket holds records, the   *)
(* first item of the body of GET /translations/ is the record with the     *)
(* greatest id.                                                            *)
(***************************************************************************)
C13_NewestFirst ==
    \A p \in Procs :
        (Listed(p, "ok") /\ StoredRecords # {}) =>
            /\ response[p].status_code = 200
            /\ ItemsOf(content[p]) # <<>>
            /\ ItemsOf(content[p])[1].id = MaxStoredId

(***************************************************************************)
(* C14.  GET /translations/ returns at most limit items (10 when no limit  *)
(* is given), and its body has a next_page member when the bucket holds    *)
(* more records than the limit.                                            *)
(***************************************************************************)
C14_PageWithinLimit ==
    \A p \in Procs :
        Listed(p, "ok") =>
            /\ Len(ItemsOf(content[p])) <= LimitOf(query[p])
            /\ Cardinality(DOMAIN store) > LimitOf(query[p])
                  => "next_page" \in DOMAIN content[p]

(***************************************************************************)
(* C15.  Round trip: when the bucket holds at least one record and at most *)
(* limit records, the items of GET /translations/ are exactly the records  *)
(* stored, each with its seven fields as persisted, and as many.           *)
(***************************************************************************)
C15_RoundTrip ==
    \A p \in Procs :
        (/\ Listed(p, "ok")
         /\ DOMAIN store # {}
         /\ Cardinality(DOMAIN store) <= LimitOf(query[p])) =>
            LET items == ItemsOf(content[p])
            IN  /\ Len(items) = Cardinality(DOMAIN store)
                /\ {items[i] : i \in DOMAIN items} = StoredRecords

(***************************************************************************)
(* C16.  When the bucket is empty GET /translations/ answers 200 with the  *)
(* body {message: "No translations found"}, which has no translations      *)
(* member.                                                                 *)
(***************************************************************************)
C16_EmptyStoreMessage ==
    \A p \in Procs :
        (Listed(p, "ok") /\ DOMAIN store = {}) =>
            /\ response[p].status_code = 200
            /\ DOMAIN content[p] = {"message"}
            /\ content[p].message = "No translations found"

(***************************************************************************)
(* C17.  When list_objects_v2 fails GET /translations/ answers 500 with    *)
(* the body {error: "Failed to list objects: " + detail}, which has no     *)
(* translations member.                                                    *)
(***************************************************************************)
C17_ListingFailureIs500 ==
    \A p \in Procs :
        Listed(p, "ClientError") =>
            /\ response[p].status_code = 500
            /\ DOMAIN content[p] = {"error"}
            /\ content[p].error[1] = "Failed to list objects: "

(***************************************************************************)
(* C18.  The original_lang of every stored record and of every record      *)
(* returned with a 201 is a code of two letters, whether the caller        *)
(* supplied input_lang or not.                                             *)
(***************************************************************************)
C18_OriginalLangTwoLetters ==
    /\ \A r \in StoredRecords : Len(r.original_lang) = 2
    /\ \A p \in Procs : Answered(p, 201) => Len(translation_info[p].original_lang) = 2

(***************************************************************************)
(* C19.  A request whose text the provider returns unchanged is answered   *)
(* 422 "Translation error. Inputted text was not recognised. Please try    *)
(* again.": it gets no id and makes no S3 call, so writes no record.  Every *)
(* stored record has a translated_text different from its original_text    *)
(* and a non-empty original_text.                                          *)
(***************************************************************************)
C19_UnchangedTextIs422 ==
    /\ \A p \in Procs :
          (/\ pc[p] = "done"
           /\ outcome[p].translate.exc = "none"
           /\ outcome[p].translate.value = request[p].text) =>
              /\ response[p] = HTTPException(422,
                    <<"Translation error. Inputted text was not recognised. Please try again.">>)
              /\ translation_info[p] = NoInfo
              /\ calls[p] = <<"detect", "translate">>
              /\ outcome[p].s3 = "not called"
    /\ \A r \in StoredRecords :
          r.translated_text # r.original_text /\ r.original_text # ""

\* With a record in the bucket, a request whose text came back unchanged was
\* answered with the translation error.
C19_Witness ==
    \E p \in Procs :
        /\ pc[p] = "done"
        /\ outcome[p].translate = [exc |-> "none", value |-> request[p].text]
        /\ response[p] = TranslationNotRecognized
        /\ StoredRecords # {}

(***************************************************************************)
(* C20.  A step of POST /translate/ in which an S3 call fails (the listing *)
(* or the read of the id lookup, or the write of the record) ends the      *)
(* request with status 500 and not with a 201; when the failing call is    *)
(* the listing or the read, the bucket is left as it was.                  *)
(***************************************************************************)
C20_StorageFailureIs500 ==
    [][\A p \in Procs :
          (outcome[p].s3 # "ClientError" /\ outcome'[p].s3 = "ClientError") =>
              /\ pc[p] \in {"list", "get", "put"}
              /\ pc'[p] = "done"
              /\ response'[p].status_code = 500
              /\ response'[p] # Created
              /\ pc[p] \in {"list", "get"} => store' = store]_vars

\* A request ended with status 500 because the read of the latest object
\* failed, with a record in the bucket.
C20_Witness ==
    \E p \in Procs :
        /\ pc[p] = "done"
        /\ outcome[p].s3 = "ClientError"
        /\ calls[p] = <<"detect", "translate", "list_objects_v2", "get_object">>
        /\ response[p].status_code = 500
        /\ StoredRecords # {}

(***************************************************************************)
(* C21.  The id of a request answered 201 is 1 plus the id looked up, the  *)
(* request having made one listing and at most one read; the id looked up  *)
(* is 0 when the listing is empty and otherwise the id stored, when        *)
(* listed, in an object of the listing that no object of the listing is    *)
(* later than by last-modified time.                                       *)
(***************************************************************************)
\* The ids stored in the objects of a listing with the greatest LastModified.
LatestListedIds(listed) ==
    {loads(listed[i].Body).id :
        i \in {i \in DOMAIN listed :
                 \A j \in DOMAIN listed : listed[j].LastModified <= listed[i].LastModified}}

C21_IdFromLatestListed ==
    [][\A p \in Procs :
          /\ (pc[p] = "list" /\ pc'[p] = "build") =>
                objects_listed(store) = <<>> /\ latest_id'[p] = 0
          /\ (pc[p] = "get" /\ pc'[p] = "build") =>
                latest_id'[p] \in LatestListedIds(objects[p])
          /\ Answers(p, 201) =>
                /\ translation_info'[p].id = latest_id[p] + 1
                /\ calls'[p] \in
                      {<<"detect", "translate", "list_objects_v2", "put_object">>,
                       <<"detect", "translate", "list_objects_v2", "get_object",
                         "put_object">>}]_vars

=============================================================================
